---------------------------- MODULE Spec2Model ----------------------------
(***************************************************************************)
(* RenovaFlow: the project store behind the HTTP API of server.ts and the  *)
(* project-detail workflow of App.tsx.                                     *)
(*                                                                         *)
(* The store is one SQLite database opened through better-sqlite3.  Every  *)
(* statement and every db.transaction() runs synchronously inside one      *)
(* Express handler, so a handler that does not await is one atomic step.   *)
(* better-sqlite3 builds SQLite with foreign keys enforced, so the         *)
(* FOREIGN KEY ... ON DELETE CASCADE clauses of the schema are in force.   *)
(*                                                                         *)
(* Status names are written in ASCII: Estimate, Order, Construction,       *)
(* Billing, PaymentIn, PaymentOut, Cancelled stand for the seven literals  *)
(* of ProjectStatus in types.ts, in that order.                            *)
(***************************************************************************)
EXTENDS Integers, Sequences, FiniteSets, TLC

VARIABLES
    projects,            \* table projects: set of rows
    construction_staff,  \* table construction_staff
    billing_items,       \* table billing_items
    outbound_payments,   \* table outbound_payments
    files,               \* table files
    uploading,           \* uploads whose handler awaits the remote copy
    uploads,             \* the uploads directory: the files multer has stored
    last,                \* the request handled last and the response it got
    clients,             \* per operator: the state of the browser's App
    users,               \* table users
    sharepoint           \* the external document store and the calls to it in flight

tables == <<projects, construction_staff, billing_items, outbound_payments, files>>

\* the users and the external document store
elsewhere == <<users, sharepoint>>

vars == <<tables, uploading, uploads, last, clients, elsewhere>>

-----------------------------------------------------------------------------
(* Bounds of the model *)

NumProjects == 2
NumStaffIds == 2
NumBillIds  == 1
NumOutIds   == 1
NumFileIds  == 1
MaxRows     == 2
MaxUploading == 1
NumOperators == 2
NumFormBills == 2
NumBrowserProjects == 1
NumSharedBills == 1
NumUserIds == 2
NumEmails == 2
NumPasswords == 2
MaxCalls == 2

ProjIds  == 1..NumProjects
StaffIds == 1..NumStaffIds
BillIds  == 1..NumBillIds
OutIds   == 1..NumOutIds
FileIds  == 1..NumFileIds
Operators   == 1..NumOperators
FormBillIds == 1..NumFormBills
BrowserProjects == 1..NumBrowserProjects
SharedBillIds == 1..NumSharedBills

-----------------------------------------------------------------------------
(* Values *)

\* types.ts line 1, in the canonical order of progressSteps plus Cancelled
ProjectStatus ==
    {"Estimate", "Order", "Construction", "Billing", "PaymentIn", "PaymentOut", "Cancelled"}

\* a status value outside ProjectStatus that a request body may carry
BogusStatus == "Bogus"

\* a child row of a request that carries no usable id (staff.id is falsy)
NoId == 0

\* the six remark columns PATCH /api/projects/:id may set, besides status
RemarkFields ==
    {"estimateRemarks", "orderRemarks", "constructionRemarks",
     "billingRemarks", "paymentRemarks", "outboundPaymentRemarks"}

PatchFields == {"status"} \cup RemarkFields

\* the columns PUT /api/projects/:id rewrites.  "title" stands for the
\* columns that only create and full update write (the dates, title,
\* propertyName and the customer columns): every handler treats them alike.
PutFields == {"status", "title"} \cup RemarkFields

-----------------------------------------------------------------------------
(* The database as one value, and the rows of one project *)

Db == [projects           |-> projects,
       construction_staff |-> construction_staff,
       billing_items      |-> billing_items,
       outbound_payments  |-> outbound_payments,
       files              |-> files]

RowsOf(table, projectId) == {r \in table : r.projectId = projectId}

HasProject(ps, id) == \E p \in ps : p.id = id

ProjectRow(ps, id) == CHOOSE p \in ps : p.id = id


-----------------------------------------------------------------------------
(* SQL statements.  A statement that violates a constraint throws: the    *)
(* result then has ok = FALSE and the table as it was before the statement.*)

\* bill.isBilled ? 1 : 0
ToInt(flag) == IF flag THEN 1 ELSE 0

\* how JavaScript reads a stored 0/1 column back (b.isBilled in a condition)
Truthy(n) == n # 0

\* PRIMARY KEY of a TEXT column: a NULL id never collides
PrimaryKeyFree(table, id) == id = NoId \/ ~ \E r \in table : r.id = id

\* mutant: foreign keys are not enforced
ForeignKeyHolds_Off(ps, projectId) == TRUE

\* FOREIGN KEY(projectId) REFERENCES projects(id)
ForeignKeyHolds(ps, projectId) == HasProject(ps, projectId)

\* mutant: INSERT OR IGNORE, a conflicting row is skipped without an error
Insert_OrIgnore(table, row, ps) ==
    IF PrimaryKeyFree(table, row.id) /\ ForeignKeyHolds(ps, row.projectId)
    THEN [ok |-> TRUE, t |-> table \cup {row}]
    ELSE [ok |-> TRUE, t |-> table]

\* INSERT INTO <child table>: one row
Insert(table, row, ps) ==
    IF PrimaryKeyFree(table, row.id) /\ ForeignKeyHolds(ps, row.projectId)
    THEN [ok |-> TRUE,  t |-> table \cup {row}]
    ELSE [ok |-> FALSE, t |-> table]

\* for (const x of rows) insertX.run(...): stops at the first row that throws
RECURSIVE InsertAll(_, _, _)
InsertAll(table, rows, ps) ==
    IF rows = <<>> THEN [ok |-> TRUE, t |-> table]
    ELSE LET r == Insert(table, Head(rows), ps)
         IN  IF r.ok THEN InsertAll(r.t, Tail(rows), ps) ELSE r

\* DELETE FROM <child table> WHERE projectId = ?
DeleteWhereProject(table, projectId) == table \ RowsOf(table, projectId)

\* mutant: foreign keys are not enforced, only the project row goes
DeleteProjectCascade_NoCascade(db, id) ==
    [db EXCEPT !.projects = {p \in db.projects : p.id # id}]

\* DELETE FROM projects WHERE id = ?, with ON DELETE CASCADE on the four
\* tables that reference projects(id)
DeleteProjectCascade(db, id) ==
    [projects           |-> {p \in db.projects : p.id # id},
     construction_staff |-> DeleteWhereProject(db.construction_staff, id),
     billing_items      |-> DeleteWhereProject(db.billing_items, id),
     outbound_payments  |-> DeleteWhereProject(db.outbound_payments, id),
     files              |-> DeleteWhereProject(db.files, id)]

\* the project row a request body describes
ProjectOf(id, body) ==
    [f \in {"id"} \cup PutFields |-> IF f = "id" THEN id ELSE body[f]]

\* the rows the insert loops bind, as stored
StaffRow(projectId, s) == [id |-> s.id, projectId |-> projectId, name |-> s.name]

\* mutant: the creation binds the flags of the request
BillingRowCreate_AsSent(projectId, b) ==
    [id |-> b.id, projectId |-> projectId, amount |-> b.amount,
     isBilled |-> ToInt(b.isBilled), isPaid |-> ToInt(b.isPaid)]

\* insertBilling.run(bill.id, id, ..., 0, 0) of the creation
BillingRowCreate(projectId, b) ==
    [id |-> b.id, projectId |-> projectId, amount |-> b.amount,
     isBilled |-> 0, isPaid |-> 0]

OutboundRowCreate(projectId, o) ==
    [id |-> o.id, projectId |-> projectId, amount |-> o.amount, isPaid |-> 0]

BillingRowUpdate(projectId, b) ==
    [id |-> b.id, projectId |-> projectId, amount |-> b.amount,
     isBilled |-> ToInt(b.isBilled), isPaid |-> ToInt(b.isPaid)]

OutboundRowUpdate(projectId, o) ==
    [id |-> o.id, projectId |-> projectId, amount |-> o.amount,
     isPaid |-> ToInt(o.isPaid)]

-----------------------------------------------------------------------------
(* The two transactions.  Each runs its statements in order; the first one *)
(* that throws ends the run.  The result is the database as the statements *)
(* left it (ok = TRUE), or as it stood when a statement threw (ok = FALSE).*)

\* mutant: the full update advances a project it is sent as Billing with
\* every billing item billed
UpdateProject_Advancing(ps, id, body) ==
    LET advance == /\ body.status = "Billing"
                   /\ \A i \in 1..Len(body.billingItems) : body.billingItems[i].isBilled
    IN  {IF p.id = id
         THEN ProjectOf(id, [body EXCEPT !.status = IF advance THEN "PaymentIn" ELSE @])
         ELSE p : p \in ps}

\* UPDATE projects SET status = ?, ... WHERE id = ?  (no row: nothing changes)
UpdateProject(ps, id, body) ==
    {IF p.id = id THEN ProjectOf(id, body) ELSE p : p \in ps}

\* mutant: the DELETE before the insert loop is left out
ReplaceRows_NoDelete(table, projectId, rows, ps) ==
    InsertAll(table \ {r \in RowsOf(table, projectId) :
                          \E i \in 1..Len(rows) : rows[i].id = r.id},
              rows, ps)

\* one kind of child rows of a full update: delete, then the insert loop
ReplaceRows(table, projectId, rows, ps) ==
    InsertAll(DeleteWhereProject(table, projectId), rows, ps)

\* db.transaction of app.put("/api/projects/:id")
PutStatements(db, projectId, body) ==
    LET ps == UpdateProject(db.projects, projectId, body)
        st == ReplaceRows(db.construction_staff, projectId,
                  [i \in 1..Len(body.constructionStaff) |->
                      StaffRow(projectId, body.constructionStaff[i])], ps)
        bi == IF st.ok
              THEN ReplaceRows(db.billing_items, projectId,
                  [i \in 1..Len(body.billingItems) |->
                      BillingRowUpdate(projectId, body.billingItems[i])], ps)
              ELSE [ok |-> FALSE, t |-> db.billing_items]
        ou == IF bi.ok
              THEN ReplaceRows(db.outbound_payments, projectId,
                  [i \in 1..Len(body.outboundPayments) |->
                      OutboundRowUpdate(projectId, body.outboundPayments[i])], ps)
              ELSE [ok |-> FALSE, t |-> db.outbound_payments]
    IN  [ok |-> ou.ok,
         db |-> [projects           |-> ps,
                 construction_staff |-> st.t,
                 billing_items      |-> bi.t,
                 outbound_payments  |-> ou.t,
                 files              |-> db.files]]

\* db.transaction of app.post("/api/projects")
PostStatements(db, id, body) ==
    LET pk == ~ HasProject(db.projects, id)
        ps == IF pk THEN db.projects \cup {ProjectOf(id, body)} ELSE db.projects
        st == IF pk
              THEN InsertAll(db.construction_staff,
                  [i \in 1..Len(body.constructionStaff) |->
                      StaffRow(id, body.constructionStaff[i])], ps)
              ELSE [ok |-> FALSE, t |-> db.construction_staff]
        bi == IF st.ok
              THEN InsertAll(db.billing_items,
                  [i \in 1..Len(body.billingItems) |->
                      BillingRowCreate(id, body.billingItems[i])], ps)
              ELSE [ok |-> FALSE, t |-> db.billing_items]
        ou == IF bi.ok
              THEN InsertAll(db.outbound_payments,
                  [i \in 1..Len(body.outboundPayments) |->
                      OutboundRowCreate(id, body.outboundPayments[i])], ps)
              ELSE [ok |-> FALSE, t |-> db.outbound_payments]
    IN  [ok |-> ou.ok,
         db |-> [projects           |-> ps,
                 construction_staff |-> st.t,
                 billing_items      |-> bi.t,
                 outbound_payments  |-> ou.t,
                 files              |-> db.files]]

\* mutant: the statements run outside a transaction, nothing is rolled back
Transaction_NoRollback(db, run) == run.db

\* better-sqlite3's db.transaction(fn)(): COMMIT when fn returns, ROLLBACK
\* and rethrow when it throws
Transaction(db, run) == IF run.ok THEN run.db ELSE db

\* the handler's try/catch: res.json({success: true}) or res.status(500)
TransactionStatus(run) == IF run.ok THEN 200 ELSE 500

\* x.id || Date.now().toString() + Math.random(): every way the rows lacking
\* an id can be given one (the generated value is any identifier)
ResolveIds(rows, ids) ==
    {[i \in 1..Len(rows) |->
        IF rows[i].id = NoId THEN [rows[i] EXCEPT !.id = g[i]] ELSE rows[i]]
     : g \in [1..Len(rows) -> ids]}

\* what a response says of the request once it failed: nothing
BlankBody ==
    [f \in PutFields \cup {"constructionStaff", "billingItems", "outboundPayments"} |->
        IF f \in PutFields THEN "" ELSE <<>>]

SetDb(db) ==
    /\ projects' = db.projects
    /\ construction_staff' = db.construction_staff
    /\ billing_items' = db.billing_items
    /\ outbound_payments' = db.outbound_payments
    /\ files' = db.files

\* the project a request names, as it stood before the request: its status
\* ("" when it has no row) and how many child and file rows it had
Before(projectId) ==
    [status |-> IF HasProject(projects, projectId)
                THEN ProjectRow(projects, projectId).status ELSE "",
     rows   |-> Cardinality(RowsOf(construction_staff, projectId))
              + Cardinality(RowsOf(billing_items, projectId))
              + Cardinality(RowsOf(outbound_payments, projectId))
              + Cardinality(RowsOf(files, projectId))]

NoProject == [status |-> "", rows |-> 0]

\* the record of a handled request: the handler, the id in its path, the
\* HTTP status of the response (0: none written), the body of a request that
\* succeeded, and what its project was before
Response(op, id, code, body, was) ==
    [op |-> op, id |-> id, code |-> code, body |-> body, was |-> was]

-----------------------------------------------------------------------------
(* The handlers of server.ts, one action each *)

\* app.post("/api/projects")
PostProject(id, body) ==
    LET run == PostStatements(Db, id, body)
    IN  /\ SetDb(Transaction(Db, run))
        /\ last' = Response("postProject", id, TransactionStatus(run),
                            IF run.ok THEN body ELSE BlankBody, Before(id))
        /\ UNCHANGED <<uploading, uploads>>

\* what app.get("/api/projects/:id") answers
GetProjectResponse(db, id) ==
    IF HasProject(db.projects, id)
    THEN [code |-> 200,
          project |-> ProjectRow(db.projects, id),
          constructionStaff |-> RowsOf(db.construction_staff, id),
          billingItems |-> RowsOf(db.billing_items, id),
          outboundPayments |-> RowsOf(db.outbound_payments, id),
          files |-> RowsOf(db.files, id)]
    ELSE [code |-> 404]

\* app.get("/api/projects/:id")
GetProject(id) ==
    /\ last' = Response("getProject", id, GetProjectResponse(Db, id).code, BlankBody, Before(id))
    /\ UNCHANGED <<tables, uploading, uploads>>

\* progressSteps.indexOf(status): -1 for Cancelled and for any other value
StepIndex(status) ==
    CASE status = "Estimate"     -> 0
      [] status = "Order"        -> 1
      [] status = "Construction" -> 2
      [] status = "Billing"      -> 3
      [] status = "PaymentIn"    -> 4
      [] status = "PaymentOut"   -> 5
      [] OTHER                   -> -1

\* mutant: the status is only written when it is not behind the stored one
PatchedProject_ForwardOnly(p, body) ==
    [f \in DOMAIN p |->
        IF f \in PatchFields /\ f \in DOMAIN body
           /\ (f = "status" => StepIndex(body[f]) >= StepIndex(p[f]))
        THEN body[f] ELSE p[f]]

\* the seven "if (x !== undefined) UPDATE projects SET x = ? WHERE id = ?"
PatchedProject(p, body) ==
    [f \in DOMAIN p |->
        IF f \in PatchFields /\ f \in DOMAIN body THEN body[f] ELSE p[f]]

\* app.patch("/api/projects/:id")
PatchProject(id, body) ==
    /\ projects' = {IF p.id = id THEN PatchedProject(p, body) ELSE p : p \in projects}
    /\ last' = Response("patchProject", id, 200, body, Before(id))
    /\ UNCHANGED <<construction_staff, billing_items, outbound_payments, files, uploading, uploads>>

\* mutant: both flags are written, a flag the body lacks as 0
PatchedBillingItem_WritesBoth(b, body) ==
    [f \in DOMAIN b |->
        IF f \in {"isBilled", "isPaid"}
        THEN IF f \in DOMAIN body THEN ToInt(body[f]) ELSE 0
        ELSE b[f]]

\* the two "if (x !== undefined) UPDATE billing_items SET x = ? WHERE id = ?"
PatchedBillingItem(b, body) ==
    [f \in DOMAIN b |->
        IF f \in {"isBilled", "isPaid"} /\ f \in DOMAIN body THEN ToInt(body[f]) ELSE b[f]]

\* app.patch("/api/billing_items/:id")
PatchBillingItem(id, body) ==
    /\ billing_items' =
           {IF b.id = id THEN PatchedBillingItem(b, body) ELSE b : b \in billing_items}
    /\ last' = Response("patchBillingItem", id, 200, body, NoProject)
    /\ UNCHANGED <<projects, construction_staff, outbound_payments, files, uploading, uploads>>

PatchedOutboundPayment(o, body) ==
    [f \in DOMAIN o |->
        IF f = "isPaid" /\ f \in DOMAIN body THEN ToInt(body[f]) ELSE o[f]]

\* app.patch("/api/outbound_payments/:id")
PatchOutboundPayment(id, body) ==
    /\ outbound_payments' =
           {IF o.id = id THEN PatchedOutboundPayment(o, body) ELSE o : o \in outbound_payments}
    /\ last' = Response("patchOutboundPayment", id, 200, body, NoProject)
    /\ UNCHANGED <<projects, construction_staff, billing_items, files, uploading, uploads>>

\* app.put("/api/projects/:id")
PutProject(id, body) ==
    \E st \in ResolveIds(body.constructionStaff, StaffIds),
       bi \in ResolveIds(body.billingItems, BillIds),
       ou \in ResolveIds(body.outboundPayments, OutIds) :
        LET sent == [body EXCEPT !.constructionStaff = st,
                                 !.billingItems = bi,
                                 !.outboundPayments = ou]
            run == PutStatements(Db, id, sent)
        IN  /\ SetDb(Transaction(Db, run))
            /\ last' = Response("putProject", id, TransactionStatus(run),
                                IF run.ok THEN sent ELSE BlankBody, Before(id))
            /\ UNCHANGED <<uploading, uploads>>

\* app.delete("/api/projects/:id")
DeleteProject(id) ==
    /\ SetDb(DeleteProjectCascade(Db, id))
    /\ last' = Response("deleteProject", id, 200, BlankBody, Before(id))
    /\ UNCHANGED <<uploading, uploads>>

\* app.post("/api/projects/:id/files"), up to its await: the file id is
\* Date.now().toString(); when the project row is found the handler awaits
\* the remote copy, and otherwise it goes on to the INSERT at once
PostFileBegin(projectId, fileId) ==
    /\ Cardinality(uploading) < MaxUploading
    /\ HasProject(projects, projectId)
    /\ uploading' = uploading \cup {[projectId |-> projectId, id |-> fileId]}
    /\ uploads' = uploads \cup {fileId}
    /\ UNCHANGED <<tables, last>>

\* what becomes of an exception thrown in an async handler outside any
\* try/catch: the promise is rejected, which Express 4 leaves unhandled (no
\* response is written, code 0) and Express 5 passes to its error handler
\* (500); the source does not say which Express is installed
UncaughtInAsyncHandler == {0, 500}

\* INSERT INTO files: 200 with the row stored, or the statement throws in the
\* async handler, outside any try/catch
InsertFile(projectId, fileId) ==
    LET ins == Insert(files, [id |-> fileId, projectId |-> projectId], projects)
    IN  /\ files' = ins.t
        /\ \E code \in IF ins.ok THEN {200} ELSE UncaughtInAsyncHandler :
               last' = Response("postFile", projectId, code, BlankBody, Before(projectId))
        /\ UNCHANGED <<projects, construction_staff, billing_items, outbound_payments>>

\* the rest of the upload handler, after the await
PostFileEnd(u) ==
    /\ u \in uploading
    /\ uploading' = uploading \ {u}
    /\ InsertFile(u.projectId, u.id)
    /\ UNCHANGED uploads

\* the upload handler for a project id with no row: no await, straight to the INSERT
PostFileNoProject(projectId, fileId) ==
    /\ ~ HasProject(projects, projectId)
    /\ InsertFile(projectId, fileId)
    /\ uploads' = uploads \cup {fileId}
    /\ UNCHANGED uploading

\* app.delete("/api/files/:id"): when the row is found, the file it names is
\* unlinked if it exists and the row is deleted
DeleteFile(id) ==
    /\ files' = {f \in files : f.id # id}
    /\ uploads' = IF \E f \in files : f.id = id THEN uploads \ {id} ELSE uploads
    /\ last' = Response("deleteFile", id, 200, BlankBody, NoProject)
    /\ UNCHANGED <<projects, construction_staff, billing_items, outbound_payments, uploading, uploads>>

-----------------------------------------------------------------------------
(* Request bodies *)

SeqsUpTo(S, n) == UNION {[1..k -> S] : k \in 0..n}

Body(status, title, staff, billing, outbound) ==
    [f \in PutFields \cup {"constructionStaff", "billingItems", "outboundPayments"} |->
        CASE f = "status" -> status
          [] f = "title" -> title
          [] f = "constructionStaff" -> staff
          [] f = "billingItems" -> billing
          [] f = "outboundPayments" -> outbound
          [] OTHER -> ""]

StaffInputs(ids) == [id : ids, name : {"a"}]
BillingInputs(ids, flags) ==
    {[id |-> i, amount |-> 100, isBilled |-> f[1], isPaid |-> f[2]] : i \in ids, f \in flags}
OutboundInputs(ids, flags) == [id : ids, amount : {100}, isPaid : flags]

IdsOf(rows) == {r.id : r \in rows}

Range(seq) == {seq[i] : i \in 1..Len(seq)}

\* bodies with at most MaxRows child rows in all, and of each kind no more
\* rows than there are ids to give them
Bodies(statuses, staffRows, billingRows, outboundRows) ==
    {Body(s, "t", x[1], x[2], x[3]) :
        s \in statuses,
        x \in {y \in SeqsUpTo(staffRows, MaxRows) \X SeqsUpTo(billingRows, MaxRows)
                     \X SeqsUpTo(outboundRows, MaxRows) :
                /\ Len(y[1]) + Len(y[2]) + Len(y[3]) <= MaxRows
                /\ Len(y[1]) <= Cardinality(IdsOf(staffRows))
                /\ Len(y[2]) <= Cardinality(IdsOf(billingRows))
                /\ Len(y[3]) <= Cardinality(IdsOf(outboundRows))}}

-----------------------------------------------------------------------------
(* The users of server.ts: the table, its seed row and the four handlers   *)
(* that read or write it.  A row keeps the columns the handlers decide on  *)
(* (id, email, password, isActive) and role for the columns, like name and *)
(* remarks, that are only stored.  Emails and passwords are numbered;      *)
(* email 1 and password 1 are those of the seed row.                       *)

UserIds   == 1..NumUserIds
Emails    == 1..NumEmails
Passwords == 1..NumPasswords
Roles     == {"admin", "staff"}

\* the row inserted at startup when no user has the admin email
SeedUser == [id |-> 1, email |-> 1, password |-> 1, role |-> "admin", isActive |-> 1]

\* mutant: the email column without its UNIQUE constraint
UniqueEmailFree_NoConstraint(us, email, id) == TRUE

\* email TEXT UNIQUE: no other row has the email
UniqueEmailFree(us, email, id) == ~ \E u \in us : u.email = email /\ u.id # id

\* INSERT INTO users (...) VALUES (?, ?, ?, ?, ?, ?, 1)
InsertUser(us, body) ==
    IF PrimaryKeyFree(us, body.id) /\ UniqueEmailFree(us, body.email, body.id)
    THEN [ok |-> TRUE, t |-> us \cup {[id |-> body.id, email |-> body.email,
                                        password |-> body.password, role |-> body.role,
                                        isActive |-> 1]}]
    ELSE [ok |-> FALSE, t |-> us]

\* app.post("/api/users"): the catch answers 400 whatever the INSERT threw
PostUser(body) ==
    LET ins == InsertUser(users, body)
    IN  /\ users' = ins.t
        /\ last' = Response("postUser", body.id, IF ins.ok THEN 200 ELSE 400, body, NoProject)
        /\ UNCHANGED <<tables, uploading, uploads, clients, sharepoint>>

\* the SET list of app.put("/api/users/:id"): a field of the body that is
\* not undefined, isActive as isActive ? 1 : 0
UpdatedUser(u, body) ==
    [f \in DOMAIN u |->
        IF f \in DOMAIN body /\ f # "id"
        THEN IF f = "isActive" THEN ToInt(body[f]) ELSE body[f]
        ELSE u[f]]

\* UPDATE users SET ... WHERE id = ?: no row, or the row rewritten, or the
\* statement throwing on a second row with the email
UpdateUser(us, id, body) ==
    IF \E u \in us : /\ u.id = id
                     /\ "email" \in DOMAIN body
                     /\ ~ UniqueEmailFree(us, body.email, id)
    THEN [ok |-> FALSE, t |-> us]
    ELSE [ok |-> TRUE, t |-> {IF u.id = id THEN UpdatedUser(u, body) ELSE u : u \in us}]

\* app.put("/api/users/:id"): no try/catch; a throw in this synchronous
\* handler reaches the error handler of Express, which answers 500
PutUser(id, body) ==
    LET upd == UpdateUser(users, id, body)
    IN  /\ users' = upd.t
        /\ last' = Response("putUser", id, IF upd.ok THEN 200 ELSE 500, body, NoProject)
        /\ UNCHANGED <<tables, uploading, uploads, clients, sharepoint>>

\* mutant: the deletion of a user that has no row is answered 404
DeleteUser_NotFound(id) ==
    /\ users' = {u \in users : u.id # id}
    /\ last' = Response("deleteUser", id, IF \E u \in users : u.id = id THEN 200 ELSE 404,
                        BlankBody, NoProject)
    /\ UNCHANGED <<tables, uploading, uploads, clients, sharepoint>>

\* app.delete("/api/users/:id")
DeleteUser(id) ==
    /\ users' = {u \in users : u.id # id}
    /\ last' = Response("deleteUser", id, 200, BlankBody, NoProject)
    /\ UNCHANGED <<tables, uploading, uploads, clients, sharepoint>>

\* mutant: the login does not look at isActive
LoginResponse_IgnoresActive(us, email, password) ==
    IF \E u \in us : u.email = email /\ u.password = password THEN 200 ELSE 401

\* what app.post("/api/login") answers: .get() gives a row with the email
\* and the password, if there is one
LoginResponse(us, email, password) ==
    IF \E u \in us : u.email = email /\ u.password = password
    THEN LET user == CHOOSE u \in us : u.email = email /\ u.password = password
         IN  IF user.isActive = 0 THEN 403 ELSE 200
    ELSE 401

\* app.post("/api/login")
Login(email, password) ==
    /\ last' = Response("login", 0, LoginResponse(users, email, password),
                        [email |-> email, password |-> password], NoProject)
    /\ UNCHANGED <<tables, uploading, uploads, clients, users, sharepoint>>

\* the external document store: the folders and file copies it holds, the
\* folder calls not yet finished, and how the call that ended last ended
NoSharePoint == [folders |-> {}, copies |-> {}, pending |-> {}, ended |-> "none"]

CallNumbers == 1..MaxCalls

\* createSharePointFolder(folderName), called without await and with a
\* .catch: the call is in flight when the handler goes on
FolderCallStarted(sp, no, folderName) ==
    [sp EXCEPT !.pending = @ \cup {[no |-> no, folder |-> folderName]}]

\* app.post("/api/projects") with the folder call it starts once the
\* transaction committed
PostProjectAndFolder(id, body) ==
    \E no \in CallNumbers :
        /\ \A call \in sharepoint.pending : call.no # no
        /\ PostProject(id, body)
        /\ sharepoint' = IF last'.code = 200
                         THEN FolderCallStarted(sharepoint, no, body.title)
                         ELSE sharepoint
        /\ UNCHANGED <<clients, users>>

\* app.put("/api/projects/:id") with the folder call it starts once the
\* transaction committed
PutProjectAndFolder(id, body) ==
    \E no \in CallNumbers :
        /\ \A call \in sharepoint.pending : call.no # no
        /\ PutProject(id, body)
        /\ sharepoint' = IF last'.code = 200
                         THEN FolderCallStarted(sharepoint, no, body.title)
                         ELSE sharepoint
        /\ UNCHANGED <<clients, users>>

\* the promise of createSharePointFolder settles: the folder is there, or
\* the function caught the error, logged it and returned null
FolderCallEnds(call, reachable) ==
    /\ call \in sharepoint.pending
    /\ sharepoint' = [sharepoint EXCEPT
           !.pending = @ \ {call},
           !.folders = IF reachable THEN @ \cup {call.folder} ELSE @,
           !.ended = IF reachable THEN "ok" ELSE "failed"]
    /\ UNCHANGED <<tables, uploading, uploads, last, clients, users>>

\* what await uploadFileToSharePoint(...) gives the upload handler: the
\* item, or null when there is no client or the PUT threw
uploadFileToSharePoint(reachable) == IF reachable THEN "item" ELSE "null"

\* mutant: the upload handler gives up on null, as the ai-doc handler does
UploadProceeds_OnlyOnResult(result) == result # "null"

\* the upload handler ignores what the await gave and catches what it
\* threw: it always goes on to the INSERT
UploadProceeds(result) == TRUE

\* the upload handler from the end of its await to its response
UploadCallEnds(u, reachable) ==
    /\ u \in uploading
    /\ IF UploadProceeds(uploadFileToSharePoint(reachable))
       THEN PostFileEnd(u)
       ELSE /\ uploading' = uploading \ {u}
            /\ last' = Response("postFile", u.projectId, 500, BlankBody, Before(u.projectId))
            /\ UNCHANGED <<tables, uploads>>
    /\ sharepoint' = [sharepoint EXCEPT
           !.copies = IF reachable THEN @ \cup {u.id} ELSE @,
           !.ended = IF reachable THEN "ok" ELSE "failed"]
    /\ UNCHANGED <<clients, users>>

-----------------------------------------------------------------------------
(* The browser: App.tsx, one record per operator.                          *)
(*   page      which component shows: the list, a project's detail or its  *)
(*             edit form                                                   *)
(*   projectId the project ProjectDetail was opened for                    *)
(*   project   ProjectDetail's state "project": the response it last kept  *)
(*   formData  ProjectForm's state                                         *)
(*   pc        where the running handler stands: each fetch it awaits is a *)
(*             step of its own                                             *)
(*   job       what the operator last clicked, the status the project had  *)
(*             then and whether the click billed its last unbilled item    *)

NoResponse == [code |-> 0]

NoJob == [op |-> "none", was |-> "", allBilled |-> FALSE]

InitialClient ==
    [page |-> "list", projectId |-> 0, project |-> NoResponse,
     formData |-> BlankBody, pc |-> "idle", job |-> NoJob]

\* the rows of a response in the order of their ids
RECURSIVE InOrder(_)
InOrder(rows) ==
    IF rows = {} THEN <<>>
    ELSE LET first == CHOOSE r \in rows : \A q \in rows : r.id <= q.id
         IN  <<first>> \o InOrder(rows \ {first})

\* the child rows of initialData as the form holds and later sends them; a
\* stored flag 0/1 is written as the truth value the server reads it as
FormStaff(rows) ==
    [i \in 1..Len(rows) |-> [id |-> rows[i].id, name |-> rows[i].name]]

FormBilling(rows) ==
    [i \in 1..Len(rows) |->
        [id |-> rows[i].id, amount |-> rows[i].amount,
         isBilled |-> Truthy(rows[i].isBilled), isPaid |-> Truthy(rows[i].isPaid)]]

FormOutbound(rows) ==
    [i \in 1..Len(rows) |->
        [id |-> rows[i].id, amount |-> rows[i].amount, isPaid |-> Truthy(rows[i].isPaid)]]

\* useState({...}) of ProjectForm: the fields of initialData, a missing
\* status read as Estimate
FormOf(initialData) ==
    [f \in DOMAIN BlankBody |->
        CASE f = "status" ->
                 IF initialData.project.status = "" THEN "Estimate"
                 ELSE initialData.project.status
          [] f = "constructionStaff" -> FormStaff(InOrder(initialData.constructionStaff))
          [] f = "billingItems" -> FormBilling(InOrder(initialData.billingItems))
          [] f = "outboundPayments" -> FormOutbound(InOrder(initialData.outboundPayments))
          [] OTHER -> initialData.project[f]]

\* the form of "new project": no initialData
NewForm == [BlankBody EXCEPT !.status = "Estimate"]

\* addBilling: a row with a fresh id and both flags false
AddedBilling(id) == [id |-> id, amount |-> 0, isBilled |-> FALSE, isPaid |-> FALSE]

\* the status buttons ProjectDetail renders for the project it shows
StatusButtons(project) ==
    IF project.status = "Cancelled" THEN {"Estimate"}
    ELSE {s \in ProjectStatus : StepIndex(s) >= 0} \cup {"Cancelled"}

\* mutant: the auto-advance does not look at the status
ShouldAdvance_AnyStatus(updatedProject) ==
    \A b \in updatedProject.billingItems : b.isBilled # 0

\* mutant: the auto-advance asks for some billed item
ShouldAdvance_Some(updatedProject) ==
    /\ \E b \in updatedProject.billingItems : b.isBilled # 0
    /\ updatedProject.project.status = "Billing"

\* allBilled && updatedProject.status === 'Billing'
ShouldAdvance(updatedProject) ==
    /\ \A b \in updatedProject.billingItems : Truthy(b.isBilled)
    /\ updatedProject.project.status = "Billing"

\* setProject(data) when res.ok
KeptProject(project, response) ==
    IF response.code = 200 THEN response ELSE project

Shows(c) ==
    /\ clients[c].page = "detail"
    /\ clients[c].pc = "idle"
    /\ clients[c].project.code = 200

StatusOf(ps, id) == IF HasProject(ps, id) THEN ProjectRow(ps, id).status ELSE ""

AllBilled(items, projectId) == \A b \in RowsOf(items, projectId) : b.isBilled = 1

\* what the detail page of a browser lists as billing items
ShownBilling(cl) == IF cl.project.code = 200 THEN cl.project.billingItems ELSE {}

\* Date.now().toString() as the id of a project or of a form row: an id no
\* store and no browser holds any more stands for the fresh one
FreshProjectId(id) ==
    /\ ~ HasProject(projects, id)
    /\ \A c \in Operators : clients[c].projectId # id

FreshBillingId(id) ==
    /\ id \notin IdsOf(billing_items)
    /\ \A c \in Operators :
           /\ id \notin IdsOf(ShownBilling(clients[c]))
           /\ id \notin IdsOf(Range(clients[c].formData.billingItems))

\* handleSaveProject: the new-project form, filled in and saved; the app
\* goes to the list whatever the answer (amount '' is sent as 0)
SaveNewProject(c, id, billIds) ==
    /\ clients[c].page = "list"
    /\ FreshProjectId(id)
    /\ \A i \in billIds : FreshBillingId(i)
    /\ PostProject(id, [NewForm EXCEPT !.title = "t",
                           !.billingItems = InOrder({AddedBilling(i) : i \in billIds})])
    /\ clients' = [clients EXCEPT ![c] = InitialClient]

\* handleDeleteProject, from the list
ClickDelete(c, id) ==
    /\ clients[c].page = "list"
    /\ DeleteProject(id)
    /\ clients' = [clients EXCEPT ![c] = InitialClient]

\* a row of the list is clicked: ProjectDetail mounts and its effect starts
\* fetchProject
OpenDetail(c, id) ==
    /\ clients[c].page = "list"
    /\ clients' = [clients EXCEPT ![c] =
           [InitialClient EXCEPT !.page = "detail", !.projectId = id, !.pc = "fetch"]]
    /\ UNCHANGED <<tables, uploading, uploads, last>>

\* onBack
Back(c) ==
    /\ clients[c].page = "detail"
    /\ clients[c].pc = "idle"
    /\ clients' = [clients EXCEPT ![c] = InitialClient]
    /\ UNCHANGED <<tables, uploading, uploads, last>>

\* fetchProject
FetchProject(c) ==
    /\ clients[c].pc = "fetch"
    /\ GetProject(clients[c].projectId)
    /\ clients' = [clients EXCEPT ![c] =
           [@ EXCEPT !.pc = "idle",
                     !.project = KeptProject(@, GetProjectResponse(Db, clients[c].projectId))]]

\* handleStatusUpdate once its PATCH was answered (always ok): back to the
\* list on a cancellation or a reopening, else fetchProject
AfterStatusUpdate(cl, newStatus) ==
    IF \/ newStatus = "Cancelled"
       \/ cl.project.project.status = "Cancelled" /\ newStatus = "Estimate"
    THEN [InitialClient EXCEPT !.job = cl.job]
    ELSE [cl EXCEPT !.pc = "fetch"]

\* a status button of the detail page: handleStatusUpdate(newStatus)
ClickStatus(c, newStatus) ==
    /\ Shows(c)
    /\ newStatus \in StatusButtons(clients[c].project.project)
    /\ PatchProject(clients[c].projectId, [status |-> newStatus])
    /\ clients' = [clients EXCEPT ![c] =
           AfterStatusUpdate([@ EXCEPT !.job = NoJob], newStatus)]

\* handleBillingItemUpdate up to its PATCH
BillingItemUpdate(c, itemId, op) ==
    /\ PatchBillingItem(itemId, [x \in {IF op = "billed" THEN "isBilled" ELSE "isPaid"} |-> TRUE])
    /\ clients' = [clients EXCEPT ![c] =
           [@ EXCEPT !.pc = "billingGet",
                     !.job = [op |-> op,
                              was |-> StatusOf(projects, clients[c].projectId),
                              allBilled |-> AllBilled(billing_items', clients[c].projectId)]]]

\* the "mark billed" button, rendered for an item shown as unbilled
ClickBilled(c, itemId) ==
    /\ Shows(c)
    /\ \E bill \in ShownBilling(clients[c]) :
           bill.id = itemId /\ ~ Truthy(bill.isBilled)
    /\ BillingItemUpdate(c, itemId, "billed")

\* the "mark paid" button, rendered for an item shown as unpaid and
\* disabled while the item is shown as unbilled
ClickPaid(c, itemId) ==
    /\ Shows(c)
    /\ \E bill \in ShownBilling(clients[c]) :
           bill.id = itemId /\ ~ Truthy(bill.isPaid) /\ Truthy(bill.isBilled)
    /\ BillingItemUpdate(c, itemId, "paid")

\* handleBillingItemUpdate after its PATCH: the GET, setProject and the
\* decision to advance
BillingGet(c) ==
    /\ clients[c].pc = "billingGet"
    /\ GetProject(clients[c].projectId)
    /\ LET updatedProject == GetProjectResponse(Db, clients[c].projectId)
       IN  clients' = [clients EXCEPT ![c] =
               [@ EXCEPT !.project = KeptProject(@, updatedProject),
                         !.pc = IF /\ updatedProject.code = 200
                                   /\ clients[c].job.op = "billed"
                                   /\ ShouldAdvance(updatedProject)
                                THEN "advance" ELSE "idle"]]

\* handleStatusUpdate('PaymentIn') called by handleBillingItemUpdate
Advance(c) ==
    /\ clients[c].pc = "advance"
    /\ PatchProject(clients[c].projectId, [status |-> "PaymentIn"])
    /\ clients' = [clients EXCEPT ![c] = AfterStatusUpdate(@, "PaymentIn")]

\* the edit button: setIsEditing(true) mounts ProjectForm on the project shown
ClickEdit(c) ==
    /\ Shows(c)
    /\ clients' = [clients EXCEPT ![c] =
           [@ EXCEPT !.page = "edit", !.formData = FormOf(clients[c].project), !.job = NoJob]]
    /\ UNCHANGED <<tables, uploading, uploads, last>>

\* the back arrow of the edit page: setIsEditing(false)
CancelEdit(c) ==
    /\ clients[c].page = "edit"
    /\ clients[c].pc = "idle"
    /\ clients' = [clients EXCEPT ![c] = [@ EXCEPT !.page = "detail", !.formData = BlankBody]]
    /\ UNCHANGED <<tables, uploading, uploads, last>>

\* addBilling
AddBilling(c, id) ==
    /\ clients[c].page = "edit"
    /\ clients[c].pc = "idle"
    /\ FreshBillingId(id)
    /\ clients' = [clients EXCEPT ![c].formData.billingItems = Append(@, AddedBilling(id))]
    /\ UNCHANGED <<tables, uploading, uploads, last>>

\* removeBilling
RemoveBilling(c, id) ==
    /\ clients[c].page = "edit"
    /\ clients[c].pc = "idle"
    /\ id \in IdsOf(Range(clients[c].formData.billingItems))
    /\ clients' = [clients EXCEPT ![c].formData.billingItems =
                       SelectSeq(@, LAMBDA b : b.id # id)]
    /\ UNCHANGED <<tables, uploading, uploads, last>>

\* handleEditSave up to its PUT; a failed save leaves the form open
ClickSave(c) ==
    /\ clients[c].page = "edit"
    /\ clients[c].pc = "idle"
    /\ PutProject(clients[c].projectId, clients[c].formData)
    /\ clients' = [clients EXCEPT ![c].pc = IF last'.code = 200 THEN "saveFetch" ELSE "idle"]

\* handleEditSave after its PUT: await fetchProject(), setIsEditing(false)
SaveFetch(c) ==
    /\ clients[c].pc = "saveFetch"
    /\ GetProject(clients[c].projectId)
    /\ clients' = [clients EXCEPT ![c] =
           [@ EXCEPT !.pc = "idle", !.page = "detail", !.formData = BlankBody,
                     !.project = KeptProject(@, GetProjectResponse(Db, clients[c].projectId))]]

-----------------------------------------------------------------------------
(* The API driven by arbitrary callers: projects and their child rows.     *)
(* Creations carry status Billing and full updates status PaymentIn, so a  *)
(* full update of a fresh project also rewrites the project row.           *)

Init ==
    /\ projects = {}
    /\ construction_staff = {}
    /\ billing_items = {}
    /\ outbound_payments = {}
    /\ files = {}
    /\ uploading = {}
    /\ uploads = {}
    /\ last = Response("none", 0, 0, BlankBody, NoProject)
    /\ clients = [c \in Operators |-> InitialClient]
    /\ users = {SeedUser}
    /\ sharepoint = NoSharePoint

ApiPostBodies ==
    Bodies({"Billing"}, StaffInputs(StaffIds),
           BillingInputs(BillIds, {<<TRUE, TRUE>>}),
           OutboundInputs(OutIds, {TRUE}))

ApiPutBodies ==
    Bodies({"PaymentIn"}, StaffInputs(StaffIds \cup {NoId}),
           BillingInputs(BillIds, BOOLEAN \X BOOLEAN),
           OutboundInputs(OutIds, BOOLEAN))

Next ==
    \/ \E id \in ProjIds, body \in ApiPostBodies : PostProject(id, body)
           /\ UNCHANGED <<clients, elsewhere>>
    \/ \E id \in ProjIds, body \in ApiPutBodies : PutProject(id, body)
           /\ UNCHANGED <<clients, elsewhere>>
    \/ \E id \in BillIds, f \in {"isBilled", "isPaid"}, v \in BOOLEAN :
           PatchBillingItem(id, [x \in {f} |-> v])
           /\ UNCHANGED <<clients, elsewhere>>
    \/ \E id \in OutIds, v \in BOOLEAN : PatchOutboundPayment(id, [isPaid |-> v])
           /\ UNCHANGED <<clients, elsewhere>>
    \/ \E id \in ProjIds : DeleteProject(id)
           /\ UNCHANGED <<clients, elsewhere>>

Spec == Init /\ [][Next]_vars

-----------------------------------------------------------------------------
(* Properties of the store under Spec *)


\* no two rows of a table share an id
UniqueIds(table) == \A r1, r2 \in table : r1.id = r2.id => r1 = r2

\* C1: after each successful full update of an existing project, the stored
\* staff, billing-item and outbound-payment rows of that project are exactly
\* the rows of that request (none of an earlier version remains, and an empty
\* sequence leaves the collection empty)
C1_ReplacementIsExact ==
    (last.op = "putProject" /\ last.code = 200 /\ HasProject(projects, last.id)) =>
        /\ RowsOf(construction_staff, last.id) =
               {StaffRow(last.id, x) : x \in Range(last.body.constructionStaff)}
        /\ RowsOf(billing_items, last.id) =
               {BillingRowUpdate(last.id, x) : x \in Range(last.body.billingItems)}
        /\ RowsOf(outbound_payments, last.id) =
               {OutboundRowUpdate(last.id, x) : x \in Range(last.body.outboundPayments)}

\* a successful full update with no staff on a project that had two child
\* rows, none of which is left
C1_Witness ==
    /\ last.op = "putProject" /\ last.code = 200 /\ HasProject(projects, last.id)
    /\ last.was.rows = 2
    /\ last.body.constructionStaff = <<>>
    /\ RowsOf(construction_staff, last.id) = {}
    /\ Len(last.body.billingItems) = 1

\* C2: a full update that fails answers 500 and leaves every table as it was
\* (the project's own fields and its three collections included); a full
\* update answers 200 or 500, and after a 200 no two rows of a table share an
\* id, so a colliding or repeated id never gets through
C2_FailedUpdateChangesNothing ==
    [][last'.op = "putProject" =>
          /\ last'.code \in {200, 500}
          /\ last'.code = 500 => UNCHANGED tables
          /\ last'.code = 200 =>
                 /\ UniqueIds(construction_staff')
                 /\ UniqueIds(billing_items')
                 /\ UniqueIds(outbound_payments')]_vars

\* a failed full update of an existing project that keeps its child rows
C2_Witness ==
    /\ last.op = "putProject" /\ last.code = 500
    /\ HasProject(projects, last.id)
    /\ last.was.rows = 2
    /\ Before(last.id) = last.was

\* C10: project creation is all-or-nothing: a creation whose id exists fails;
\* a failed creation answers 500 and changes no table; a successful one
\* stores the project row and every supplied child row (flags cleared) and
\* changes no other row
C10_CreationIsAllOrNothing ==
    [][last'.op = "postProject" =>
          /\ last'.code \in {200, 500}
          /\ HasProject(projects, last'.id) => last'.code = 500
          /\ last'.code = 500 => UNCHANGED tables
          /\ last'.code = 200 =>
                 /\ projects' = projects \cup {ProjectOf(last'.id, last'.body)}
                 /\ construction_staff' = construction_staff \cup
                        {StaffRow(last'.id, x) : x \in Range(last'.body.constructionStaff)}
                 /\ billing_items' = billing_items \cup
                        {BillingRowCreate(last'.id, x) : x \in Range(last'.body.billingItems)}
                 /\ outbound_payments' = outbound_payments \cup
                        {OutboundRowCreate(last'.id, x) : x \in Range(last'.body.outboundPayments)}
                 /\ Cardinality(RowsOf(construction_staff', last'.id)) =
                        Len(last'.body.constructionStaff)
                 /\ Cardinality(RowsOf(billing_items', last'.id)) =
                        Len(last'.body.billingItems)
                 /\ Cardinality(RowsOf(outbound_payments', last'.id)) =
                        Len(last'.body.outboundPayments)
                 /\ files' = files]_vars

\* a creation that failed on a child row: its project id has no row
C10_Witness ==
    /\ last.op = "postProject" /\ last.code = 500
    /\ ~ HasProject(projects, last.id)
    /\ projects # {}

-----------------------------------------------------------------------------
(* Properties of the billing and payment flags under Spec *)

\* C7: once a billing item's billed or paid flag, or an outbound payment's
\* paid flag, is true, no request makes it false while the item exists
C7_FlagsNeverFall ==
    [][/\ \A b \in billing_items, c \in billing_items' :
              c.id = b.id =>
                  /\ b.isBilled = 1 => c.isBilled = 1
                  /\ b.isPaid = 1 => c.isPaid = 1
       /\ \A o \in outbound_payments, q \in outbound_payments' :
              q.id = o.id => (o.isPaid = 1 => q.isPaid = 1)]_vars

-----------------------------------------------------------------------------
(* The status of a project: every way the API writes it, with every status *)
(* value and one value outside the seven.                                  *)

StatusInputs == ProjectStatus \cup {BogusStatus}

NextStatus ==
    \/ \E id \in ProjIds, s \in StatusInputs :
           PostProject(id, Body(s, "t", <<>>, <<>>, <<>>))
           /\ UNCHANGED <<clients, elsewhere>>
    \/ \E id \in ProjIds, s \in StatusInputs :
           PutProject(id, Body(s, "t", <<>>, <<>>, <<>>))
           /\ UNCHANGED <<clients, elsewhere>>
    \/ \E id \in ProjIds, s \in StatusInputs : PatchProject(id, [status |-> s])
           /\ UNCHANGED <<clients, elsewhere>>
    \/ \E id \in ProjIds : PatchProject(id, [billingRemarks |-> "memo"])
           /\ UNCHANGED <<clients, elsewhere>>
    \/ \E id \in ProjIds : GetProject(id)
           /\ UNCHANGED <<clients, elsewhere>>
    \/ \E id \in ProjIds : DeleteProject(id)
           /\ UNCHANGED <<clients, elsewhere>>

SpecStatus == Init /\ [][NextStatus]_vars

\* C6: a status-set request on an existing project answers 200 and leaves the
\* stored status equal to the requested one, whatever the stored status was
C6_StatusSetIsUnrestricted ==
    [][(/\ last'.op = "patchProject"
        /\ "status" \in DOMAIN last'.body
        /\ HasProject(projects, last'.id)) =>
           /\ last'.code = 200
           /\ HasProject(projects', last'.id)
           /\ ProjectRow(projects', last'.id).status = last'.body.status
           /\ last'.was.status = ProjectRow(projects, last'.id).status]_vars

\* a status set backwards over several steps: PaymentOut to Order
C6_Witness ==
    /\ last.op = "patchProject" /\ last.code = 200
    /\ last.was.status = "PaymentOut"
    /\ HasProject(projects, last.id)
    /\ ProjectRow(projects, last.id).status = "Order"

\* C9: the stored status of every project is one of the seven defined values
C9_StatusIsOneOfSeven == \A p \in projects : p.status \in ProjectStatus

-----------------------------------------------------------------------------
(* Deleting a project: projects with child rows and uploaded files *)

DeletePostBodies ==
    Bodies({"Estimate"}, StaffInputs(StaffIds),
           BillingInputs(BillIds, {<<FALSE, FALSE>>}),
           OutboundInputs(OutIds, {FALSE}))

NextDelete ==
    \/ \E id \in ProjIds, body \in DeletePostBodies : PostProject(id, body)
           /\ UNCHANGED <<clients, elsewhere>>
    \/ \E id \in ProjIds, f \in FileIds : PostFileBegin(id, f)
           /\ UNCHANGED <<clients, elsewhere>>
    \/ \E u \in uploading : PostFileEnd(u)
           /\ UNCHANGED <<clients, elsewhere>>
    \/ \E id \in ProjIds, f \in FileIds : PostFileNoProject(id, f)
           /\ UNCHANGED <<clients, elsewhere>>
    \/ \E f \in FileIds : DeleteFile(f)
           /\ UNCHANGED <<clients, elsewhere>>
    \/ \E id \in ProjIds : GetProject(id)
           /\ UNCHANGED <<clients, elsewhere>>
    \/ \E id \in ProjIds : DeleteProject(id)
           /\ UNCHANGED <<clients, elsewhere>>

SpecDelete == Init /\ [][NextDelete]_vars

\* C5: deleting a project leaves no staff, billing-item, outbound-payment or
\* file row of that project, leaves the rows of every other project as they
\* were, and a fetch of that project then answers 404
C5_DeleteCascades ==
    [][last'.op = "deleteProject" =>
          /\ RowsOf(construction_staff', last'.id) = {}
          /\ RowsOf(billing_items', last'.id) = {}
          /\ RowsOf(outbound_payments', last'.id) = {}
          /\ RowsOf(files', last'.id) = {}
          /\ projects' = {p \in projects : p.id # last'.id}
          /\ construction_staff' = construction_staff \ RowsOf(construction_staff, last'.id)
          /\ billing_items' = billing_items \ RowsOf(billing_items, last'.id)
          /\ outbound_payments' = outbound_payments \ RowsOf(outbound_payments, last'.id)
          /\ files' = files \ RowsOf(files, last'.id)
          /\ GetProjectResponse(Db, last.id)'.code = 404]_vars

\* a project with two child rows and a file was deleted while another
\* project keeps its rows
C5_Witness ==
    /\ last.op = "deleteProject"
    /\ last.was.status # ""
    /\ last.was.rows = 3
    /\ Before(last.id) = NoProject
    /\ \E p \in projects : Before(p.id).rows > 0

-----------------------------------------------------------------------------
(* One operator at the browser: every change of the store is a click of    *)
(* this operator, and a click is made once the handler of the one before   *)
(* has finished.                                                           *)

Clicks(cs, ids, bills, statuses) ==
    \/ \E c \in cs, id \in ids, b \in SUBSET bills : SaveNewProject(c, id, b) /\ UNCHANGED elsewhere
    \/ \E c \in cs, id \in ids : ClickDelete(c, id) /\ UNCHANGED elsewhere
    \/ \E c \in cs, id \in ids : OpenDetail(c, id) /\ UNCHANGED elsewhere
    \/ \E c \in cs : Back(c) /\ UNCHANGED elsewhere
    \/ \E c \in cs : FetchProject(c) /\ UNCHANGED elsewhere
    \/ \E c \in cs, s \in statuses : ClickStatus(c, s) /\ UNCHANGED elsewhere
    \/ \E c \in cs, b \in bills : ClickBilled(c, b) /\ UNCHANGED elsewhere
    \/ \E c \in cs, b \in bills : ClickPaid(c, b) /\ UNCHANGED elsewhere
    \/ \E c \in cs : BillingGet(c) /\ UNCHANGED elsewhere
    \/ \E c \in cs : Advance(c) /\ UNCHANGED elsewhere
    \/ \E c \in cs : ClickEdit(c) /\ UNCHANGED elsewhere
    \/ \E c \in cs : CancelEdit(c) /\ UNCHANGED elsewhere
    \/ \E c \in cs, b \in bills : AddBilling(c, b) /\ UNCHANGED elsewhere
    \/ \E c \in cs, b \in bills : RemoveBilling(c, b) /\ UNCHANGED elsewhere
    \/ \E c \in cs : ClickSave(c) /\ UNCHANGED elsewhere
    \/ \E c \in cs : SaveFetch(c) /\ UNCHANGED elsewhere

NextBrowser == Clicks({1}, BrowserProjects, FormBillIds, ProjectStatus)

SpecBrowser == Init /\ [][NextBrowser]_vars

\* C3: once the handler of a "mark billed" click has finished, a project that
\* was in Billing and whose last unbilled item the click billed is in
\* PaymentIn, and a project that was in any other status still has it
C3_LastBilledAdvances ==
    \A c \in Operators :
        LET cl == clients[c]
            now == StatusOf(projects, cl.projectId)
        IN  cl.job.op = "billed" /\ cl.pc = "idle" =>
                /\ cl.job.was = "Billing" /\ cl.job.allBilled => now = "PaymentIn"
                /\ cl.job.was # "Billing" => now = cl.job.was

C3_Witness ==
    \E c \in Operators :
        /\ clients[c].job = [op |-> "billed", was |-> "Billing", allBilled |-> TRUE]
        /\ clients[c].pc = "idle"
        /\ StatusOf(projects, clients[c].projectId) = "PaymentIn"
        /\ Cardinality(RowsOf(billing_items, clients[c].projectId)) = NumFormBills

\* C4: from a "mark billed" click on a project in Billing until the next
\* click, the project is in PaymentIn only if every billing item of it is
\* billed, it stays in Billing while one is unbilled, and it is in PaymentIn
\* once the handler has finished with every item billed
C4_AdvanceOnlyWhenAllBilled ==
    \A c \in Operators :
        LET cl == clients[c]
            now == StatusOf(projects, cl.projectId)
            all == AllBilled(billing_items, cl.projectId)
        IN  cl.job.op = "billed" /\ cl.job.was = "Billing" =>
                /\ now \in {"Billing", "PaymentIn"}
                /\ now = "PaymentIn" => all
                /\ cl.pc = "idle" /\ all => now = "PaymentIn"

C4_Witness ==
    \E c \in Operators :
        /\ clients[c].job = [op |-> "billed", was |-> "Billing", allBilled |-> FALSE]
        /\ clients[c].pc = "idle"
        /\ StatusOf(projects, clients[c].projectId) = "Billing"
        /\ \E b \in RowsOf(billing_items, clients[c].projectId) : b.isBilled = 1

-----------------------------------------------------------------------------
(* Several operators on one project: each browser keeps the project and    *)
(* the form it fetched, whatever the others do meanwhile.                  *)

SharedStatuses == {"Estimate", "Billing", "Cancelled"}

NextShared == Clicks(Operators, BrowserProjects, SharedBillIds, SharedStatuses)

SpecShared == Init /\ [][NextShared]_vars

\* C8: no stored billing item is paid and not billed
C8_PaidImpliesBilled ==
    \A b \in billing_items : b.isPaid = 1 => b.isBilled = 1


-----------------------------------------------------------------------------
\* C11: a PATCH of a project id that has no row is answered 404
C11_PatchOfMissingIsNotFound ==
    last.op = "patchProject" /\ last.was.status = "" => last.code = 404


-----------------------------------------------------------------------------
(* The users API driven by arbitrary callers *)

NewUsers == [id : UserIds, email : Emails, password : Passwords, role : {"staff"}]

\* bodies of PUT /api/users/:id: one field, or the email and the active flag
UserUpdates ==
    [email : Emails] \cup [password : Passwords] \cup [isActive : BOOLEAN]
        \cup [email : Emails, isActive : BOOLEAN]

NextUsers ==
    \/ \E body \in NewUsers : PostUser(body)
    \/ \E id \in UserIds, body \in UserUpdates : PutUser(id, body)
    \/ \E id \in UserIds : DeleteUser(id)
    \/ \E email \in Emails, password \in Passwords : Login(email, password)

SpecUsers == Init /\ [][NextUsers]_vars

\* C12: a POST /api/users whose email is that of a stored user is answered
\* 400 and leaves the users table, the stored user included, as it was
C12_DuplicateEmailIsRefused ==
    [][(/\ last' # last
        /\ last'.op = "postUser"
        /\ \E u \in users : u.email = last'.body.email)
       => last'.code = 400 /\ users' = users]_vars

C12_Witness ==
    /\ last.op = "postUser"
    /\ last.code = 400
    /\ \E u \in users : /\ u.email = last.body.email
                        /\ u.id # last.body.id
                        /\ u.password # last.body.password
                        /\ u.role # last.body.role

\* C13: in every state a login with the email and the password of a
\* deactivated user is answered 403, and so was the login just handled
C13_DeactivatedCannotLogIn ==
    /\ \A u \in users : u.isActive = 0 => LoginResponse(users, u.email, u.password) = 403
    /\ last.op = "login"
           /\ (\E u \in users : /\ u.email = last.body.email
                                /\ u.password = last.body.password
                                /\ u.isActive = 0)
       => last.code = 403

C13_Witness ==
    /\ last.op = "login"
    /\ last.code = 403
    /\ \E u \in users : u.email = last.body.email /\ u.isActive = 0


-----------------------------------------------------------------------------
(* The handlers that call the external document store, with the calls in  *)
(* flight; a call ends reachable or not                                    *)

ExternalBodies == {Body("Estimate", "t", <<>>, <<>>, <<>>)}

NextExternal ==
    \/ \E id \in ProjIds, body \in ExternalBodies : PostProjectAndFolder(id, body)
    \/ \E id \in ProjIds, body \in ExternalBodies : PutProjectAndFolder(id, body)
    \/ \E call \in sharepoint.pending, reachable \in BOOLEAN : FolderCallEnds(call, reachable)
    \/ \E id \in ProjIds, f \in FileIds :
           PostFileBegin(id, f) /\ UNCHANGED <<clients, elsewhere>>
    \/ \E u \in uploading, reachable \in BOOLEAN : UploadCallEnds(u, reachable)
    \/ \E id \in ProjIds, f \in FileIds :
           PostFileNoProject(id, f) /\ UNCHANGED <<clients, elsewhere>>
    \/ \E id \in ProjIds : DeleteProject(id) /\ UNCHANGED <<clients, elsewhere>>

SpecExternal == Init /\ [][NextExternal]_vars

\* C14: when a folder call ends, reachable or not, the tables and the
\* response of its request stay as they are; when the remote copy of an
\* upload ends, reachable or not, the handler runs its INSERT and answers by
\* what the INSERT did
C14_ExternalFailureChangesNothing ==
    [][/\ sharepoint'.pending # sharepoint.pending /\ sharepoint'.pending \subseteq sharepoint.pending
          => UNCHANGED <<tables, last>>
       /\ \A u \in uploading :
              u \notin uploading' =>
                  LET ins == Insert(files, [id |-> u.id, projectId |-> u.projectId], projects)
                  IN  /\ files' = ins.t
                      /\ last'.op = "postFile"
                      /\ last'.code = 200 <=> ins.ok
                      /\ last'.code # 200 => last'.code \in {0, 500} /\ ~ ins.ok
                      /\ UNCHANGED <<projects, construction_staff, billing_items,
                                     outbound_payments>>]_vars

C14_Witness ==
    /\ sharepoint.ended = "failed"
    /\ sharepoint.copies = {}
    /\ last.op = "postFile"
    /\ last.code = 200
    /\ files # {}


\* C15: every request that was handled got a response
C15_EveryRequestIsAnswered ==
    last.op # "none" => last.code # 0


\* C16: no step takes a project that is Cancelled to a status other than
\* Estimate
C16_CancelledOnlyReopens ==
    [][\A p \in projects :
          p.status = "Cancelled" /\ HasProject(projects', p.id)
              => ProjectRow(projects', p.id).status \in {"Cancelled", "Estimate"}]_vars


\* C17: when two operators have both saved their edit forms of one project,
\* neither has fetched it again, and the full update handled last has just
\* been answered, the stored child rows of the project are exactly the rows
\* of that update, which is the form of one of the operators who saved
C17_LastWriterWins ==
    \A c1, c2 \in Operators :
        LET pid == clients[c1].projectId
            saved == {c \in Operators :
                         clients[c].pc = "saveFetch" /\ clients[c].projectId = pid}
        IN  (/\ c1 # c2
             /\ c1 \in saved
             /\ c2 \in saved
             /\ last.op = "putProject" /\ last.code = 200 /\ last.id = pid)
            => /\ last.body \in {clients[c].formData : c \in saved}
               /\ RowsOf(construction_staff, pid)
                      = {StaffRow(pid, s) : s \in Range(last.body.constructionStaff)}
               /\ RowsOf(billing_items, pid)
                      = {BillingRowUpdate(pid, b) : b \in Range(last.body.billingItems)}
               /\ RowsOf(outbound_payments, pid)
                      = {OutboundRowUpdate(pid, o) : o \in Range(last.body.outboundPayments)}

C17_Witness ==
    \E c1, c2 \in Operators :
        /\ clients[c1].pc = "saveFetch"
        /\ clients[c2].pc = "saveFetch"
        /\ clients[c1].projectId = clients[c2].projectId
        /\ clients[c1].formData.billingItems # <<>>
        /\ clients[c2].formData.billingItems = <<>>
        /\ last.op = "putProject"
        /\ last.id = clients[c1].projectId
        /\ RowsOf(billing_items, clients[c1].projectId) = {}


\* C18: no response is written in a step in which a call to the external
\* document store ends: the handler that made the call had answered before
C18_ResponseDoesNotWait ==
    [][(\/ \E u \in uploading : u \notin uploading'
        \/ \E call \in sharepoint.pending : call \notin sharepoint'.pending)
       => last' = last]_vars


\* C19: right after a creation answered 200, every billing item of the new
\* project is unbilled and unpaid and every outbound payment of it unpaid
C19_CreatedFlagsAreFalse ==
    last.op = "postProject" /\ last.code = 200 =>
        /\ \A b \in RowsOf(billing_items, last.id) : b.isBilled = 0 /\ b.isPaid = 0
        /\ \A o \in RowsOf(outbound_payments, last.id) : o.isPaid = 0

C19_Witness ==
    /\ last.op = "postProject"
    /\ last.code = 200
    /\ \E i \in 1..Len(last.body.billingItems) :
           /\ last.body.billingItems[i].isBilled
           /\ last.body.billingItems[i].isPaid
           /\ \E b \in RowsOf(billing_items, last.id) : b.id = last.body.billingItems[i].id
    /\ \E i \in 1..Len(last.body.outboundPayments) :
           /\ last.body.outboundPayments[i].isPaid
           /\ \E o \in RowsOf(outbound_payments, last.id) :
                  o.id = last.body.outboundPayments[i].id


-----------------------------------------------------------------------------
(* Creations, full updates, uploads and deletions, on project ids with and *)
(* without a row                                                           *)

OwnerBodies ==
    Bodies({"Estimate"}, StaffInputs({1}),
           BillingInputs(BillIds, {<<FALSE, FALSE>>}),
           OutboundInputs(OutIds, {FALSE}))

NextOwner ==
    \/ \E id \in ProjIds, body \in OwnerBodies :
           PostProject(id, body) /\ UNCHANGED <<clients, elsewhere>>
    \/ \E id \in ProjIds, body \in OwnerBodies :
           PutProject(id, body) /\ UNCHANGED <<clients, elsewhere>>
    \/ \E id \in ProjIds, f \in FileIds :
           PostFileBegin(id, f) /\ UNCHANGED <<clients, elsewhere>>
    \/ \E u \in uploading : PostFileEnd(u) /\ UNCHANGED <<clients, elsewhere>>
    \/ \E id \in ProjIds, f \in FileIds :
           PostFileNoProject(id, f) /\ UNCHANGED <<clients, elsewhere>>
    \/ \E f \in FileIds : DeleteFile(f) /\ UNCHANGED <<clients, elsewhere>>
    \/ \E id \in ProjIds : DeleteProject(id) /\ UNCHANGED <<clients, elsewhere>>

SpecOwner == Init /\ [][NextOwner]_vars

\* C20: every staff, billing-item, outbound-payment and file row belongs to
\* a project that has a row
C20_RowsHaveTheirProject ==
    \A r \in construction_staff \cup billing_items \cup outbound_payments \cup files :
        HasProject(projects, r.projectId)

\* a full update of a project id that has no row was refused, while
\* another project has billing-item and file rows
C20_Witness ==
    /\ last.op = "putProject"
    /\ last.code = 500
    /\ last.was = NoProject
    /\ projects # {}
    /\ files # {}
    /\ billing_items # {}



-----------------------------------------------------------------------------
(* Uniqueness of the user email *)

\* C21: in every state reached by creating, updating and deleting users
\* no two stored users have the same email
C21_EmailsAreUnique ==
    \A u, v \in users : u.email = v.email => u.id = v.id

C21_Witness ==
    /\ last.op = "putUser"
    /\ last.code = 200
    /\ "email" \in DOMAIN last.body
    /\ \E u, v \in users : /\ u.id = last.id
                           /\ u.email = last.body.email
                           /\ v.id # u.id

\* C22: a PUT /api/users/:id whose email is that of another stored user
\* is answered 400 and leaves the users table as it was
C22_DuplicateUpdateIsRefused ==
    [][(/\ last' # last
        /\ last'.op = "putUser"
        /\ "email" \in DOMAIN last'.body
        /\ \E u, v \in users : /\ u.id = last'.id
                               /\ v.id # u.id
                               /\ v.email = last'.body.email)
       => last'.code = 400 /\ users' = users]_vars



-----------------------------------------------------------------------------
(* Partial patches on projects with several child rows *)

NumPatchBills == 2
NumPatchOuts == 2

PatchBillIds == 1..NumPatchBills
PatchOutIds == 1..NumPatchOuts

\* creations with every billing item and outbound payment, or with none
PatchPostBodies ==
    {Body("Billing", "t", <<>>, <<>>, <<>>),
     Body("Billing", "t", <<>>,
          [i \in PatchBillIds |-> [id |-> i, amount |-> 100, isBilled |-> FALSE, isPaid |-> FALSE]],
          [i \in PatchOutIds |-> [id |-> i, amount |-> 100, isPaid |-> FALSE]])}

\* bodies of PATCH /api/projects/:id: one field, two fields, and a field
\* the handler does not read
ProjectPatches ==
    {[status |-> "Order"], [billingRemarks |-> "memo"],
     [status |-> "Cancelled", billingRemarks |-> "memo"],
     [status |-> "Order", title |-> "other"]}

\* bodies of PATCH /api/billing_items/:id
BillingPatches ==
    [isBilled : BOOLEAN] \cup [isPaid : BOOLEAN] \cup [isBilled : BOOLEAN, isPaid : BOOLEAN]

\* bodies of PATCH /api/outbound_payments/:id
OutboundPatches == [isPaid : BOOLEAN] \cup [isPaid : BOOLEAN, amount : {5}]

NextPatch ==
    \/ \E id \in ProjIds, body \in PatchPostBodies : PostProject(id, body)
           /\ UNCHANGED <<clients, elsewhere>>
    \/ \E id \in ProjIds, body \in ProjectPatches : PatchProject(id, body)
           /\ UNCHANGED <<clients, elsewhere>>
    \/ \E id \in PatchBillIds, body \in BillingPatches : PatchBillingItem(id, body)
           /\ UNCHANGED <<clients, elsewhere>>
    \/ \E id \in PatchOutIds, body \in OutboundPatches : PatchOutboundPayment(id, body)
           /\ UNCHANGED <<clients, elsewhere>>

SpecPatch == Init /\ [][NextPatch]_vars

\* the rows of a table other than the one with the id are the same before
\* and after the step
OthersUnchanged(before, after, id) ==
    {r \in before : r.id # id} = {r \in after : r.id # id}

\* the row with the id, if there is one, has the named fields of the body
\* (flags as 0 or 1) and its other fields as before
OnlyNamedChanged(before, after, id, named, flag) ==
    /\ {r.id : r \in before} = {r.id : r \in after}
    /\ \A r \in before, q \in after :
           r.id = id /\ q.id = id =>
               \A f \in DOMAIN r :
                   q[f] = IF f \in named /\ f \in DOMAIN last'.body
                          THEN IF flag THEN ToInt(last'.body[f]) ELSE last'.body[f]
                          ELSE r[f]

\* C23: a patch of a project changes only the supplied fields, among status
\* and the six remark fields, of that project and no child row, file or
\* other project; a patch of a billing item or of an outbound payment
\* changes only the supplied flags of that item and no project, no other
\* item and no other table
C23_PatchChangesOnlyWhatItNames ==
    [][/\ last'.op = "patchProject" =>
              /\ OthersUnchanged(projects, projects', last'.id)
              /\ OnlyNamedChanged(projects, projects', last'.id, PatchFields, FALSE)
              /\ UNCHANGED <<construction_staff, billing_items, outbound_payments, files>>
       /\ last'.op = "patchBillingItem" =>
              /\ OthersUnchanged(billing_items, billing_items', last'.id)
              /\ OnlyNamedChanged(billing_items, billing_items', last'.id,
                                  {"isBilled", "isPaid"}, TRUE)
              /\ UNCHANGED <<projects, construction_staff, outbound_payments, files>>
       /\ last'.op = "patchOutboundPayment" =>
              /\ OthersUnchanged(outbound_payments, outbound_payments', last'.id)
              /\ OnlyNamedChanged(outbound_payments, outbound_payments', last'.id,
                                  {"isPaid"}, TRUE)
              /\ UNCHANGED <<projects, construction_staff, billing_items, files>>]_vars

\* a billing item that is paid has just been patched with isBilled alone,
\* next to another item and another project
C23_Witness ==
    /\ last.op = "patchBillingItem"
    /\ DOMAIN last.body = {"isBilled"}
    /\ \E b, c \in billing_items : /\ b.id = last.id
                                   /\ b.isPaid = 1
                                   /\ b.isBilled = ToInt(last.body.isBilled)
                                   /\ c.id # b.id
    /\ Cardinality(projects) = 2



-----------------------------------------------------------------------------
(* Full updates whose child rows come with and without an id; no request  *)
(* carries a staff id other than 1, so that a staff row stored under       *)
(* another id has got it from the handler                                  *)

IdPutBodies ==
    Bodies({"Estimate"}, StaffInputs({1, NoId}),
           BillingInputs(BillIds \cup {NoId}, {<<FALSE, FALSE>>}),
           OutboundInputs(OutIds \cup {NoId}, {FALSE}))

NextIds ==
    \/ \E id \in ProjIds : PostProject(id, Body("Estimate", "t", <<>>, <<>>, <<>>))
           /\ UNCHANGED <<clients, elsewhere>>
    \/ \E id \in ProjIds, body \in IdPutBodies : PutProject(id, body)
           /\ UNCHANGED <<clients, elsewhere>>

SpecIds == Init /\ [][NextIds]_vars

\* the rows of one kind a successful full update stored, against the rows
\* supplied: as many, a row that came with an id under that id, every row
\* under an id of its own that no other row of the table has
StoredAsSupplied(supplied, sent, table, projectId) ==
    /\ Len(sent) = Len(supplied)
    /\ Cardinality(RowsOf(table, projectId)) = Len(supplied)
    /\ \A i \in 1..Len(supplied) :
           /\ supplied[i].id # NoId => sent[i].id = supplied[i].id
           /\ sent[i].id # NoId
           /\ \E r \in RowsOf(table, projectId) : r.id = sent[i].id
           /\ \A j \in 1..Len(supplied) : sent[i].id = sent[j].id => i = j
    /\ UniqueIds(table)

\* C24: a successful full update stores every supplied child row that
\* has an id under that id and every row without one under an assigned id
\* that no other stored row of its kind has, so as many rows as supplied
C24_RowsKeepOrGetAnId ==
    [][\A id \in ProjIds, body \in IdPutBodies :
           (PutProject(id, body) /\ last'.code = 200) =>
               /\ StoredAsSupplied(body.constructionStaff, last'.body.constructionStaff,
                                   construction_staff', id)
               /\ StoredAsSupplied(body.billingItems, last'.body.billingItems,
                                   billing_items', id)
               /\ StoredAsSupplied(body.outboundPayments, last'.body.outboundPayments,
                                   outbound_payments', id)]_vars

\* a full update has stored two staff rows, one of them under an id the
\* handler assigned
C24_Witness ==
    /\ last.op = "putProject" /\ last.code = 200
    /\ Len(last.body.constructionStaff) = 2
    /\ Cardinality(RowsOf(construction_staff, last.id)) = 2
    /\ \E r \in RowsOf(construction_staff, last.id) : r.id # 1



-----------------------------------------------------------------------------
(* Uploaded files: the registry row and the stored file *)

\* the explicit deletion of a registered file leaves neither its row nor
\* its stored file, and every other row and stored file as it was
ExplicitDeletionRemovesBoth ==
    (last'.op = "deleteFile" /\ \E f \in files : f.id = last'.id) =>
        /\ ~ \E f \in files' : f.id = last'.id
        /\ last'.id \notin uploads'
        /\ files' = {f \in files : f.id # last'.id}
        /\ uploads' \ {last'.id} = uploads \ {last'.id}

\* C25: an explicit deletion of a file removes its row and its stored
\* bytes and nothing of another file, and whenever a row of files goes,
\* by that deletion or by the cascade of its project's, the stored bytes
\* go with it
C25_NoBytesWithoutRow ==
    [][/\ ExplicitDeletionRemovesBoth
       /\ \A f \in files : f \notin files' => f.id \notin uploads']_vars



-----------------------------------------------------------------------------
(* The auto-advance and the edit form next to another operator *)

\* C26: whenever the auto-advance of a browser writes PaymentIn to a
\* project that has a row, the stored status of the project is Billing and every stored billing item of
\* the project is billed at that moment, whatever other operators did in
\* between
C26_AdvanceFindsBillingAllBilled ==
    [][\A c \in Operators :
           (Advance(c) /\ HasProject(projects, clients[c].projectId)) =>
               /\ StatusOf(projects, clients[c].projectId) = "Billing"
               /\ AllBilled(billing_items, clients[c].projectId)]_vars


\* the flags of the rows of a project that are stored before and after
\* the step are the same
FlagsKept(before, after, projectId, flags) ==
    \A r \in RowsOf(before, projectId), q \in RowsOf(after, projectId) :
        r.id = q.id => \A f \in flags : r[f] = q[f]

\* C27: a successful save of the edit form leaves the stored status of
\* the project and the stored billed and paid flags of the items it echoes
\* as they were just before it, whatever other operators did after the form
\* was opened
C27_SaveKeepsStatusAndFlags ==
    [][\A c \in Operators :
           (ClickSave(c) /\ last'.code = 200) =>
               /\ StatusOf(projects', clients[c].projectId)
                      = StatusOf(projects, clients[c].projectId)
               /\ FlagsKept(billing_items, billing_items', clients[c].projectId,
                            {"isBilled", "isPaid"})
               /\ FlagsKept(outbound_payments, outbound_payments', clients[c].projectId,
                            {"isPaid"})]_vars


\* C28: after a successful full update of a project the stored status is
\* the status of the request, also when that is Billing with every item
\* billed, and the browser that saved goes on to fetch the project and to
\* show it, without a status write of its own
C28_FullUpdateDoesNotAdvance ==
    [][/\ (/\ last'.op = "putProject" /\ last'.code = 200
           /\ HasProject(projects', last'.id))
          => ProjectRow(projects', last'.id).status = last'.body.status
       /\ \A c \in Operators :
              /\ (ClickSave(c) /\ last'.code = 200) => clients'[c].pc = "saveFetch"
              /\ SaveFetch(c) => clients'[c].pc = "idle" /\ UNCHANGED tables]_vars

\* a form with status Billing and its one item billed was saved and the
\* project is stored as Billing
C28_Witness ==
    /\ last.op = "putProject" /\ last.code = 200
    /\ last.body.status = "Billing"
    /\ Len(last.body.billingItems) = 1
    /\ last.body.billingItems[1].isBilled
    /\ StatusOf(projects, last.id) = "Billing"
    /\ AllBilled(billing_items, last.id)
    /\ \E c \in Operators : clients[c].pc = "saveFetch" /\ clients[c].projectId = last.id



-----------------------------------------------------------------------------
(* Deletions of projects, files and users, of ids with and without a row *)

RemovedUsers == [id : UserIds, email : Emails, password : {1}, role : {"staff"}]

NextRemove ==
    \/ \E id \in ProjIds, body \in OwnerBodies :
           PostProject(id, body) /\ UNCHANGED <<clients, elsewhere>>
    \/ \E id \in ProjIds, f \in FileIds :
           PostFileBegin(id, f) /\ UNCHANGED <<clients, elsewhere>>
    \/ \E u \in uploading : PostFileEnd(u) /\ UNCHANGED <<clients, elsewhere>>
    \/ \E id \in ProjIds : DeleteProject(id) /\ UNCHANGED <<clients, elsewhere>>
    \/ \E f \in FileIds : DeleteFile(f) /\ UNCHANGED <<clients, elsewhere>>
    \/ \E body \in RemovedUsers : PostUser(body)
    \/ \E id \in UserIds : DeleteUser(id)

SpecRemove == Init /\ [][NextRemove]_vars

\* the tables, the users and the uploads directory
store == <<tables, users, uploads>>

=============================================================================
